---- MODULE Spec2Model ----
(***************************************************************************)
(* Model of the rendering contracts of src/src/widgets.rs: the traits      *)
(* Widget, Render, RenderWithState and RenderMut, the Context wrapper, the *)
(* Render -> Widget bridge, the Option adapter and the text bridges for    *)
(* &str and String.                                                        *)
(*                                                                         *)
(* Buffer, Rect and Style live in other modules of the crate; they are     *)
(* modelled from the specification: a Buffer is an area plus one cell per  *)
(* coordinate of that area, and set_string writes one character per cell   *)
(* from (x, y) rightwards, dropping every write outside the area.          *)
(***************************************************************************)
EXTENDS Integers, Sequences, FiniteSets, TLC

(* ------------------------------ bounds -------------------------------- *)

\* longest text rendered
MaxLen == 2
\* width and height of the surfaces
BufW == 3
BufH == 2
\* calls in a sequence of text renders
MaxCalls == 2
\* longest text of the left child of the composite
MaxLeft == 5

(* --------------------------- data model ------------------------------- *)

Chars == {"a", "b"}

\* the sequences over chars of length at most n
RECURSIVE SeqsUpTo(_, _)
SeqsUpTo(chars, n) ==
    IF n = 0 THEN {<<>>}
    ELSE LET shorter == SeqsUpTo(chars, n - 1)
         IN  shorter \cup {Append(s, c) : s \in {t \in shorter : Len(t) = n - 1}, c \in chars}

Texts == SeqsUpTo(Chars, MaxLen)

\* crate::style::Style::default()
Style_default == "default"

Rect(x, y, width, height) == [x |-> x, y |-> y, width |-> width, height |-> height]

Rect_contains(r, x, y) ==
    /\ x >= r.x
    /\ x < r.x + r.width
    /\ y >= r.y
    /\ y < r.y + r.height

Cell(symbol, style) == [symbol |-> symbol, style |-> style]

\* Buffer::empty(area): every cell a space with the default style
Buffer_empty(area) ==
    [area |-> area, content |-> [i \in 1..(area.width * area.height) |-> Cell(" ", Style_default)]]

\* a Buffer some earlier drawing has filled
Buffer_filled(area, cell) ==
    [area |-> area, content |-> [i \in 1..(area.width * area.height) |-> cell]]

\* coordinates of the i-th cell of the content (row-major)
pos_of(buffer, i) ==
    [x |-> buffer.area.x + ((i - 1) % buffer.area.width),
     y |-> buffer.area.y + ((i - 1) \div buffer.area.width)]

index_of(buffer, x, y) ==
    (y - buffer.area.y) * buffer.area.width + (x - buffer.area.x) + 1

cell_at(buffer, x, y) == buffer.content[index_of(buffer, x, y)]

\* Buffer::set_string(x, y, string, style): one character per cell from (x, y)
\* rightwards on row y; a write outside the buffer's area is dropped
set_string(buffer, x, y, string, style) ==
    [buffer EXCEPT !.content =
        [i \in DOMAIN buffer.content |->
            LET p == pos_of(buffer, i)
            IN  IF p.y = y /\ p.x >= x /\ p.x - x < Len(string)
                THEN Cell(string[p.x - x + 1], style)
                ELSE buffer.content[i]]]

(* ---------------------------- Context --------------------------------- *)

Context_from_buffer(buffer) == [buffer |-> buffer]

(* --------------------------- drawables -------------------------------- *)

\* kind: "str" (&str), "String", "Unit" (a type with an empty `impl Render`)
\* opt : "bare" (the value itself), "some" (Some(value)), "none" (None)
Drawable(kind, opt, text) == [kind |-> kind, opt |-> opt, text |-> text]

Drawables ==
    {Drawable(k, o, t) : k \in {"str", "String"}, o \in {"bare", "some"}, t \in Texts}
    \cup {Drawable(k, "none", <<>>) : k \in {"str", "String", "Unit"}}
    \cup {Drawable("Unit", o, <<>>) : o \in {"bare", "some"}}

\* a value whose ownership went into a consuming render
Moved == Drawable("moved", "bare", <<>>)

Unwrap(d) == [d EXCEPT !.opt = "bare"]

(* ------------------------- render operations -------------------------- *)

\* a default method that blanks the corner cell of its area
Render_default_blanks(self, area, ctx) ==
    [ctx EXCEPT !.buffer = set_string(ctx.buffer, area.x, area.y, <<" ">>, Style_default)]

\* trait Render: fn render(&self, area, ctx) {}
Render_default(self, area, ctx) == ctx

\* trait RenderWithState: fn render(&self, area, ctx, state) {}
RenderWithState_default(self, area, ctx, st) == [ctx |-> ctx, state |-> st]

\* trait RenderMut: fn render_mut(&mut self, area, ctx) {}
RenderMut_default(self, area, ctx) == [self |-> self, ctx |-> ctx]

\* a text bridge that starts one column too far right
Render_str_shifted(self, area, ctx) ==
    [ctx EXCEPT !.buffer = set_string(ctx.buffer, area.x + 1, area.y, self, Style_default)]

\* a text bridge that gives up when the text does not fit into the buffer
Render_str_all_or_nothing(self, area, ctx) ==
    IF \A k \in 1..Len(self) : Rect_contains(ctx.buffer.area, area.x + k - 1, area.y)
    THEN [ctx EXCEPT !.buffer = set_string(ctx.buffer, area.x, area.y, self, Style_default)]
    ELSE ctx

\* a text bridge that inserts: the cells from the corner rightwards move right by
\* the length of the text instead of being overwritten
Render_str_inserting(self, area, ctx) ==
    LET b == ctx.buffer
        n == Len(self)
    IN  [ctx EXCEPT !.buffer.content =
            [i \in DOMAIN b.content |->
                LET p == pos_of(b, i)
                IN  IF p.y = area.y /\ p.x >= area.x
                    THEN IF p.x - area.x < n
                         THEN Cell(self[p.x - area.x + 1], Style_default)
                         ELSE IF p.x - n >= b.area.x
                              THEN b.content[i - n]
                              ELSE b.content[i]
                    ELSE b.content[i]]]

\* a text bridge that aligns the text with the right edge of its area
Render_str_right_aligned(self, area, ctx) ==
    LET x == IF area.width > Len(self) THEN area.x + area.width - Len(self) ELSE area.x
    IN  [ctx EXCEPT !.buffer = set_string(ctx.buffer, x, area.y, self, Style_default)]

\* a text bridge that cuts the text at the width of its area
Render_str_cut_at_width(self, area, ctx) ==
    LET n == IF area.width < Len(self) THEN area.width ELSE Len(self)
    IN  [ctx EXCEPT !.buffer =
            set_string(ctx.buffer, area.x, area.y, SubSeq(self, 1, n), Style_default)]

\* a text bridge that only fills cells still holding a space
Render_str_fill_blank(self, area, ctx) ==
    LET b == ctx.buffer
        w == set_string(b, area.x, area.y, self, Style_default)
    IN  [ctx EXCEPT !.buffer.content =
            [i \in DOMAIN b.content |->
                IF b.content[i].symbol = " " THEN w.content[i] ELSE b.content[i]]]

\* impl Render for &str
Render_str(self, area, ctx) ==
    [ctx EXCEPT !.buffer = set_string(ctx.buffer, area.x, area.y, self, Style_default)]

\* impl Render for String
Render_String(self, area, ctx) ==
    [ctx EXCEPT !.buffer = set_string(ctx.buffer, area.x, area.y, self, Style_default)]

\* dispatch of `widget.render(area, ctx)` on the type of a value that is not an Option
Render_inner(d, area, ctx) ==
    CASE d.kind = "str"    -> Render_str(d.text, area, ctx)
      [] d.kind = "String" -> Render_String(d.text, area, ctx)
      [] d.kind = "Unit"   -> Render_default(d, area, ctx)

\* an adapter that blanks the width of the area when the value is absent
Render_Option_blanks_none(self, area, ctx) ==
    IF self.opt = "some"
    THEN Render_inner(Unwrap(self), area, ctx)
    ELSE [ctx EXCEPT !.buffer =
            set_string(ctx.buffer, area.x, area.y, [k \in 1..area.width |-> " "], Style_default)]

\* an adapter that never delegates
Render_Option_skips(self, area, ctx) == ctx

\* impl<R: Render> Render for Option<R>
Render_Option(self, area, ctx) ==
    IF self.opt = "some"
    THEN Render_inner(Unwrap(self), area, ctx)
    ELSE ctx

\* Render::render(d, area, ctx) for any drawable
Render_render(d, area, ctx) ==
    IF d.opt = "bare"
    THEN Render_inner(d, area, ctx)
    ELSE Render_Option(d, area, ctx)

\* a bridge that builds the Context and forgets to delegate
Widget_ref_no_delegate(self, area, buf0) ==
    LET ctx == Context_from_buffer(buf0)
    IN  ctx.buffer

\* impl<R: Render> Widget for &R
Widget_ref(self, area, buf0) ==
    LET ctx == Context_from_buffer(buf0)
    IN  Render_render(self, area, ctx).buffer

\* impl Widget for &str
Widget_str(self, area, buf0) ==
    LET ctx == Context_from_buffer(buf0)
    IN  Render_str(self, area, ctx).buffer

\* impl Widget for String
Widget_String(self, area, buf0) ==
    LET ctx == Context_from_buffer(buf0)
    IN  Render_String(self, area, ctx).buffer

(* ------------------------------ state --------------------------------- *)

VARIABLES
    buf,     \* the Buffer the calls draw on
    prev,    \* the Buffer as it was before the latest call
    widget,  \* the drawable the caller holds
    last,    \* the latest call: operation, area and drawable rendered
    state,   \* the caller's State, handed to RenderWithState::render
    calls,   \* number of calls made
    log,     \* the calls of a sequence of text renders, oldest first
    orig     \* the Buffer as the caller created it

vars == <<buf, prev, widget, last, state, calls, log, orig>>

\* the surfaces: one at the origin, one whose area starts at column 1
BufAreas == {Rect(0, 0, BufW, BufH), Rect(1, 0, BufW, 1)}

DirtyCell == Cell("x", "red")

InitBuffers ==
    {Buffer_empty(r) : r \in BufAreas} \cup {Buffer_filled(r, DirtyCell) : r \in BufAreas}

\* the regions: corners on and just beyond the surfaces, extents empty, narrower
\* than a text and as wide as the surface
Areas ==
    {Rect(x, y, w, h) : x \in 0..(BufW + 1), y \in 0..BufH, w \in {0, 1, BufW}, h \in {0, 1}}

\* the values of the State of a stateful drawable
States == {"s0", "s1"}

NoCall == [op |-> "none", area |-> Rect(0, 0, 0, 0), d |-> Moved, st |-> "s0"]

Init ==
    /\ buf \in InitBuffers
    /\ prev = buf
    /\ widget \in Drawables
    /\ last = NoCall
    /\ state \in (IF widget.kind = "Unit" THEN States ELSE {"s0"})
    /\ calls = 0
    /\ log = <<>>
    /\ orig = buf

\* the record of a call: the drawable and the State are those before the call
Called(op, area) == [op |-> op, area |-> area, d |-> widget, st |-> state]

\* Render::render(&widget, area, &mut Context::from_buffer(&mut buf))
CallRender(area) ==
    /\ calls = 0
    /\ widget # Moved
    /\ buf' = Render_render(widget, area, Context_from_buffer(buf)).buffer
    /\ prev' = buf
    /\ last' = Called("Render", area)
    /\ calls' = 1
    /\ UNCHANGED <<widget, state, log, orig>>

\* (&widget).render(area, &mut buf) through `impl Widget for &R`
CallWidgetRef(area) ==
    /\ calls = 0
    /\ widget # Moved
    /\ buf' = Widget_ref(widget, area, buf)
    /\ prev' = buf
    /\ last' = Called("WidgetRef", area)
    /\ calls' = 1
    /\ UNCHANGED <<widget, state, log, orig>>

\* widget.render(area, &mut buf) for a &str (a Copy value: the caller keeps it)
CallWidgetStr(area) ==
    /\ calls = 0
    /\ widget.kind = "str" /\ widget.opt = "bare"
    /\ buf' = Widget_str(widget.text, area, buf)
    /\ prev' = buf
    /\ last' = Called("WidgetStr", area)
    /\ calls' = 1
    /\ UNCHANGED <<widget, state, log, orig>>

\* widget.render(area, &mut buf) for a String: the call consumes the String
CallWidgetString(area) ==
    /\ calls = 0
    /\ widget.kind = "String" /\ widget.opt = "bare"
    /\ buf' = Widget_String(widget.text, area, buf)
    /\ prev' = buf
    /\ last' = Called("WidgetString", area)
    /\ widget' = Moved
    /\ calls' = 1
    /\ UNCHANGED <<state, log, orig>>

\* RenderWithState::render(&widget, area, ctx, &mut state), method not overridden
CallRenderWithState(area) ==
    /\ calls = 0
    /\ widget.kind = "Unit" /\ widget.opt = "bare"
    /\ LET r == RenderWithState_default(widget, area, Context_from_buffer(buf), state)
       IN  /\ buf' = r.ctx.buffer
           /\ state' = r.state
    /\ prev' = buf
    /\ last' = Called("RenderWithState", area)
    /\ calls' = 1
    /\ UNCHANGED <<widget, log, orig>>

\* RenderMut::render_mut(&mut widget, area, ctx), method not overridden
CallRenderMut(area) ==
    /\ calls = 0
    /\ widget.kind = "Unit" /\ widget.opt = "bare"
    /\ LET r == RenderMut_default(widget, area, Context_from_buffer(buf))
       IN  /\ buf' = r.ctx.buffer
           /\ widget' = r.self
    /\ prev' = buf
    /\ last' = Called("RenderMut", area)
    /\ calls' = 1
    /\ UNCHANGED <<state, log, orig>>

\* the caller renders the drawable it still holds a second time, by reference,
\* with the area of the first call
Rerender ==
    /\ calls = 1
    /\ last.op \in {"Render", "WidgetRef", "WidgetStr"}
    /\ buf' = Render_render(widget, last.area, Context_from_buffer(buf)).buffer
    /\ prev' = buf
    /\ last' = [last EXCEPT !.op = "Rerender"]
    /\ calls' = 2
    /\ UNCHANGED <<widget, state, log, orig>>

Next ==
    \/ \E area \in Areas : CallRender(area)
    \/ \E area \in Areas : CallWidgetRef(area)
    \/ \E area \in Areas : CallWidgetStr(area)
    \/ \E area \in Areas : CallWidgetString(area)
    \/ \E area \in Areas : CallRenderWithState(area)
    \/ \E area \in Areas : CallRenderMut(area)
    \/ Rerender

Spec == Init /\ [][Next]_vars

(* ------------------- a sequence of renders on one Buffer -------------- *)

\* the texts drawn one after the other
OrderDrawables == {Drawable("str", "bare", t) : t \in Texts \ {<<>>}}

\* their areas: every column of the top row of the Buffer
OrderAreas(b) == {Rect(x, b.area.y, 1, 1) : x \in b.area.x..(b.area.x + b.area.width - 1)}

InitOrder ==
    /\ buf \in {Buffer_empty(Rect(0, 0, BufW, BufH)), Buffer_filled(Rect(0, 0, BufW, BufH), DirtyCell)}
    /\ prev = buf
    /\ widget = Moved
    /\ last = NoCall
    /\ state = "s0"
    /\ calls = 0
    /\ log = <<>>
    /\ orig = buf

\* Render::render(&d, area, &mut Context::from_buffer(&mut buf)), the next of the sequence
OrderRender(d, area) ==
    /\ calls < MaxCalls
    /\ buf' = Render_render(d, area, Context_from_buffer(buf)).buffer
    /\ prev' = buf
    /\ log' = Append(log, [d |-> d, area |-> area])
    /\ calls' = calls + 1
    /\ UNCHANGED <<widget, last, state, orig>>

\* (&d).render(area, &mut buf), the next of the sequence
OrderWidget(d, area) ==
    /\ calls < MaxCalls
    /\ buf' = Widget_ref(d, area, buf)
    /\ prev' = buf
    /\ log' = Append(log, [d |-> d, area |-> area])
    /\ calls' = calls + 1
    /\ UNCHANGED <<widget, last, state, orig>>

NextOrder ==
    \/ \E d \in OrderDrawables, area \in OrderAreas(buf) : OrderRender(d, area)
    \/ \E d \in OrderDrawables, area \in OrderAreas(buf) : OrderWidget(d, area)

SpecOrder == InitOrder /\ [][NextOrder]_vars

(* ------------------ a composite with an optional child ---------------- *)

CompositeChars == {"H", "i"}

\* the left child: absent, or a text
LeftChildren ==
    {Drawable(k, "some", t) : k \in {"str", "String"}, t \in SeqsUpTo(CompositeChars, MaxLeft)}
    \cup {Drawable(k, "none", <<>>) : k \in {"str", "String"}}

RightChild == Drawable("str", "bare", <<"W", "o", "r", "l", "d">>)

LeftArea == Rect(0, 0, 5, 1)
RightArea == Rect(5, 0, 5, 1)

InitComposite ==
    /\ buf = Buffer_empty(Rect(0, 0, 10, 1))
    /\ prev = buf
    /\ widget \in LeftChildren
    /\ last = NoCall
    /\ state = "s0"
    /\ calls = 0
    /\ log = <<>>
    /\ orig = buf

\* the composite renders its left child into columns 0-4
CompositeLeft ==
    /\ calls = 0
    /\ buf' = Render_render(widget, LeftArea, Context_from_buffer(buf)).buffer
    /\ prev' = buf
    /\ last' = Called("Left", LeftArea)
    /\ calls' = 1
    /\ UNCHANGED <<widget, state, log, orig>>

\* then the text "World" into columns 5-9
CompositeRight ==
    /\ calls = 1
    /\ buf' = Render_render(RightChild, RightArea, Context_from_buffer(buf)).buffer
    /\ prev' = buf
    /\ last' = [Called("Right", RightArea) EXCEPT !.d = RightChild]
    /\ calls' = 2
    /\ UNCHANGED <<widget, state, log, orig>>

NextComposite ==
    \/ CompositeLeft
    \/ CompositeRight

SpecComposite == InitComposite /\ [][NextComposite]_vars

(* ------------------------- helpers of the claims ---------------------- *)

\* what a reference render of d into area makes of buffer b
Rendered(d, area, b) == Render_render(d, area, Context_from_buffer(b)).buffer

IsText(d) == d.kind \in {"str", "String"}

WidgetOps == {"WidgetRef", "WidgetStr", "WidgetString"}

\* the buffer holds column 0..n-1 of row 0
HoldsFirstRow(b, n) ==
    /\ b.area.x = 0
    /\ b.area.y = 0
    /\ b.area.height >= 1
    /\ b.area.width >= n

\* the k-th character of the latest call's text lands inside the buffer
LandsInside(k) == Rect_contains(prev.area, last.area.x + k - 1, last.area.y)

(* ------------------------------ claims -------------------------------- *)

\* C1: a drawable rendered through the consuming Widget::render (the &R bridge, and
\* the Widget impls of &str and String) leaves the Buffer cell for cell as
\* Render::render of the same drawable with the same area leaves an equal Buffer.
Thm_C1_WidgetEqualsRender ==
    last.op \in WidgetOps => buf = Rendered(last.d, last.area, prev)

Wit_C1_WidgetEqualsRender ==
    /\ last.op = "WidgetRef"
    /\ last.d.opt = "some"
    /\ buf # prev

\* C2: Render::render of None leaves every cell of the Buffer, symbol and style,
\* as it was before the call.
Thm_C2_NoneLeavesBuffer ==
    (last.op = "Render" /\ last.d.opt = "none") => buf = prev

Wit_C2_NoneLeavesBuffer ==
    /\ last.op = "Render"
    /\ last.d.opt = "none"
    /\ last.area.width > 0
    /\ last.area.height > 0
    /\ Rect_contains(prev.area, last.area.x, last.area.y)
    /\ cell_at(buf, last.area.x, last.area.y) = DirtyCell

\* C3: Render::render of Some(D) leaves the Buffer cell for cell as rendering D
\* itself with the same area leaves an equal Buffer.
Thm_C3_SomeEqualsInner ==
    (last.op = "Render" /\ last.d.opt = "some")
        => buf = Rendered(Unwrap(last.d), last.area, prev)

Wit_C3_SomeEqualsInner ==
    /\ last.op = "Render"
    /\ last.d.opt = "some"
    /\ Len(last.d.text) = MaxLen
    /\ buf # prev

\* C4: a text of n characters rendered into an area at (0, 0) of width >= n, on a
\* Buffer holding columns 0..n-1 of row 0, puts its characters in order at
\* (0,0)..(n-1,0) with the default style and leaves the rest of row 0 unchanged.
Thm_C4_TextAtOrigin ==
    ( /\ last.op \in WidgetOps \cup {"Render"}
      /\ IsText(last.d)
      /\ last.d.opt = "bare"
      /\ last.area.x = 0
      /\ last.area.y = 0
      /\ last.area.width >= Len(last.d.text)
      /\ HoldsFirstRow(prev, Len(last.d.text)) )
    => \A c \in 0..(prev.area.width - 1) :
          cell_at(buf, c, 0) =
              IF c < Len(last.d.text)
              THEN Cell(last.d.text[c + 1], Style_default)
              ELSE cell_at(prev, c, 0)

Wit_C4_TextAtOrigin ==
    /\ last.op = "Render"
    /\ last.d = Drawable("str", "bare", <<"a", "b">>)
    /\ last.area.x = 0
    /\ last.area.y = 0
    /\ last.area.width >= 2
    /\ HoldsFirstRow(prev, 3)
    /\ cell_at(buf, 0, 0) = Cell("a", Style_default)
    /\ cell_at(buf, 1, 0) = Cell("b", Style_default)
    /\ cell_at(buf, 2, 0) = DirtyCell

\* C5: every render operation changes only cells whose coordinates lie inside the
\* area passed to the call.
Cex_C5_OnlyInsideArea ==
    calls >= 1 =>
        \A i \in DOMAIN buf.content :
            LET p == pos_of(buf, i)
            IN  ~Rect_contains(last.area, p.x, p.y) => buf.content[i] = prev.content[i]

\* C6: a render call completes for every area, also one partly or wholly outside
\* the Buffer or of zero width or height: the Buffer keeps its area, every
\* character that lands inside the Buffer is written and every other cell of the
\* Buffer is left alone (a write outside the Buffer is dropped).
Thm_C6_ClippedNotFailed ==
    (last.op \in WidgetOps \cup {"Render"} /\ IsText(last.d))
    => /\ buf.area = prev.area
       /\ DOMAIN buf.content = DOMAIN prev.content
       /\ \A k \in 1..Len(last.d.text) :
             LandsInside(k) =>
                 cell_at(buf, last.area.x + k - 1, last.area.y)
                     = Cell(last.d.text[k], Style_default)
       /\ \A i \in DOMAIN buf.content :
             LET p == pos_of(buf, i)
             IN  (\A k \in 1..Len(last.d.text) :
                      <<p.x, p.y>> # <<last.area.x + k - 1, last.area.y>>)
                 => buf.content[i] = prev.content[i]

Wit_C6_ClippedNotFailed ==
    /\ last.op = "Render"
    /\ IsText(last.d)
    /\ Len(last.d.text) = MaxLen
    /\ LandsInside(1)
    /\ ~LandsInside(MaxLen)
    /\ buf # prev

\* C8: rendering a drawable by reference a second time with the same area leaves
\* the drawable as it was and the Buffer as the first call left it.
Thm_C8_RerenderIdempotent ==
    last.op = "Rerender" => (buf = prev /\ widget = last.d)

Wit_C8_RerenderIdempotent ==
    /\ last.op = "Rerender"
    /\ last.d.opt = "some"
    /\ Len(last.d.text) = MaxLen
    /\ Rect_contains(buf.area, last.area.x, last.area.y)
    /\ cell_at(buf, last.area.x, last.area.y).symbol \in Chars

\* C10: the methods a drawable does not override do nothing: the default
\* Render::render and RenderMut::render_mut leave the Buffer unchanged, the default
\* RenderWithState::render leaves Buffer and State unchanged, render_mut leaves the
\* drawable unchanged, and Some(D) of such a D renders as None does.
Thm_C10_DefaultsDoNothing ==
    /\ (last.op = "Render" /\ last.d.kind = "Unit")
          => /\ buf = prev
             /\ buf = Rendered(Drawable("Unit", "none", <<>>), last.area, prev)
    /\ last.op = "RenderWithState" => (buf = prev /\ state = last.st)
    /\ last.op = "RenderMut" => (buf = prev /\ widget = last.d)

Wit_C10_DefaultsDoNothing ==
    /\ last.op = "Render"
    /\ last.d = Drawable("Unit", "some", <<>>)
    /\ Rect_contains(prev.area, last.area.x, last.area.y)
    /\ cell_at(prev, last.area.x, last.area.y) = DirtyCell

\* the calls of the log that write the cell at p
Writers(p) ==
    {j \in 1..Len(log) :
        /\ p.y = log[j].area.y
        /\ p.x >= log[j].area.x
        /\ p.x - log[j].area.x < Len(log[j].d.text)}

Latest(S) == CHOOSE j \in S : \A k \in S : k <= j

\* the symbols of row y of a buffer from column first to column end
RowText(b, y, first, end) == [k \in 1..(end - first + 1) |-> cell_at(b, first + k - 1, y).symbol]

\* C7: on a 10x1 Buffer of spaces the composite ends with "World" in columns 5-9;
\* with the left child Some("Hi") the row reads "Hi   World", with the left child
\* None columns 0-4 are still spaces.
Thm_C7_Composite ==
    calls = 2 =>
        /\ RowText(buf, 0, 5, 9) = <<"W", "o", "r", "l", "d">>
        /\ (widget.opt = "some" /\ widget.text = <<"H", "i">>)
              => RowText(buf, 0, 0, 9) = <<"H", "i", " ", " ", " ", "W", "o", "r", "l", "d">>
        /\ widget.opt = "none" => RowText(buf, 0, 0, 4) = <<" ", " ", " ", " ", " ">>

Wit_C7_Composite ==
    /\ calls = 2
    /\ widget = Drawable("str", "some", <<"H", "i">>)
    /\ RowText(buf, 0, 0, 1) = <<"H", "i">>

\* C9: after a sequence of render calls every cell holds what the latest call that
\* wrote its coordinate wrote there, and a cell no call wrote holds what it held
\* before the first call.
Thm_C9_LastWriteWins ==
    \A i \in DOMAIN buf.content :
        LET p == pos_of(buf, i)
            W == Writers(p)
        IN  IF W = {}
            THEN buf.content[i] = orig.content[i]
            ELSE LET c == log[Latest(W)]
                 IN  buf.content[i] = Cell(c.d.text[p.x - c.area.x + 1], Style_default)

\* two calls overlap in one cell, the later one shows there and the earlier one
\* in a cell the later one did not write
Wit_C9_LastWriteWins ==
    /\ Len(log) = 2
    /\ log[1].area.x = 0
    /\ log[2].area.x = 1
    /\ log[1].d.text = <<"a", "a">>
    /\ log[2].d.text = <<"b">>
    /\ RowText(buf, 0, 0, 1) = <<"a", "b">>

====
